---- MODULE Spec2Model ----
(***************************************************************************)
(* one-time-share: the durable message store (src/database.rs) and the     *)
(* creation handler (src/main.rs).                                         *)
(*                                                                         *)
(* The two SQLite tables are sets of rows.  Every method of OneTimeShareDb *)
(* takes the connection mutex on entry and holds it until it returns, so a *)
(* method is one atomic step that is enabled only while the mutex is free; *)
(* try_consume_message is also given statement by statement, for the       *)
(* interleavings of concurrent consumers.  The global_vars table holds the *)
(* schema version that update_version brings to LATEST_VERSION at startup. *)
(***************************************************************************)
EXTENDS Integers, Sequences, FiniteSets, TLC

\* ---------------------------------------------------------------- bounds
\* Timestamps handed to the store directly range over 0..MaxTime.
MaxTime == 2
\* Row ids of the messages table are capped (SQLite assigns max(id)+1).
MaxRowId == 2

\* Quota limits in minutes range over 0..MaxMinutes, in bytes over 0..MaxBytes.
MaxMinutes == 1
MaxBytes == 2

\* ------------------------------------------------------------- value sets
None == {}
MsgTokens == {"tokA", "tokB"}
\* Payload texts as sequences of characters (the store never looks inside).
StorePayloads == {<<"a", "G", "k", "=">>, <<"e", "W", "8", "=">>}
UserTokens == {"u1", "u2"}
\* Limit triples (retention minutes, size bytes, creation minutes) given to
\* set_user_limits directly; the last one does not read back as u32.
UserLimitInputs == {<<0, 0, 0>>, <<1, 2, 3>>, <<4, 5, 6>>, <<-1, 0, 0>>}
\* message_data of a form: "QUI=" and "QUJD" decode to 2 and 3 bytes, "QQ==" to
\* 1; "QR==" has nonzero trailing bits, "QQ=" is short of padding, "Q*==" has a
\* symbol outside the alphabet.
FormPayloads ==
  {<<"Q", "Q", "=", "=">>, <<"Q", "U", "I", "=">>, <<"Q", "U", "J", "D">>,
   <<"Q", "R", "=", "=">>, <<"Q", "Q", "=">>, <<"Q", "*", "=", "=">>}
\* A message stored before the requests.
EarlierMessage ==
  [id |-> 1, message_token |-> "tokA", expire_timestamp |-> 0,
   data |-> <<"Q", "Q", "=", "=">>]
\* The moments the clock shows while requests are served: 0, 1, and each whole
\* minute after 0 with the second that follows it.
CreateTimes == {0, 1} \cup {m * 60 + d : m \in 1..MaxMinutes, d \in {0, 1}}
\* The limits of a quota row; -1 stands for a value that is no u32.
RetentionLimits == 0..MaxMinutes
SizeLimits == 0..MaxBytes
CreationLimits == 0..MaxMinutes
FormRetentions == {None} \cup {{n} : n \in 0..(MaxMinutes + 1)}
Timestamps == 0..MaxTime
SweepLimits == 0..(MaxTime + 1)

Unlocked == "unlocked"
\* Tasks that serve POST /save, one request each.
Handlers == {"h1"}
\* Threads that call try_consume_message at the same time.
Consumers == {"c1", "c2"}

VARIABLES
  users,      \* table users: set of rows [token, the three limits, last_message_creation_timestamp]
  messages,   \* table messages: set of rows [id, message_token, expire_timestamp, data]
  clock,      \* the system clock, seconds since the epoch
  conn,       \* owner of the connection mutex, or Unlocked
  pc,         \* per consumer thread: where it is inside try_consume_message
  loc,        \* per consumer thread: its argument, the rows of its SELECT, its result
  app,        \* owner of the application-state mutex, or Unlocked
  appPoisoned,\* a handler panicked while it owned the application-state mutex
  hpc,        \* per handler thread: where it is inside create_new_message
  req,        \* per handler thread: the form and the locals of its request
  resp,       \* per handler thread: the response of its last finished request
  lastOp,     \* the last step taken: a method with its arguments and result, or a tick
  hist,       \* per message token: the last successful save and what followed it
  global_vars,\* table global_vars: set of rows [name, string_value]
  mig,        \* update_version: where it is, its current_version, the steps it applied
  db,         \* the database handle mutex: its owner and the statement that took it
  sweeper     \* the sweeper thread: where it is inside its call of clear_expired_messages

handlerVars == <<app, appPoisoned, hpc, req, resp, db, sweeper>>
schemaVars == <<global_vars, mig>>
vars == <<users, messages, clock, conn, pc, loc, app, appPoisoned, hpc, req, resp, lastOp, hist, global_vars, mig, db, sweeper>>

\* ------------------------------------------------------ the connection mutex
\* A lock that excludes nobody.
MutexNeverHeld(owner) == TRUE

\* self.conn.lock(): the caller gets the mutex only while nobody owns it.
MutexFree(owner) == owner = Unlocked

\* ------------------------------------------------------ the messages table
\* Option<T> and nullable columns are sets: {} is None / NULL, {v} is Some(v).
Some(v) == {v}

\* id INTEGER PRIMARY KEY without AUTOINCREMENT: the next rowid is max(id)+1.
NextRowId(rows) ==
  IF rows = {} THEN 1
  ELSE (CHOOSE i \in {r.id : r \in rows} : \A r \in rows : r.id <= i) + 1

\* A consume that hides rows whose expire_timestamp has passed.
SelectMessageUnexpired(rows, message_token) ==
  {r \in rows : /\ r.message_token = message_token
                /\ (r.expire_timestamp = 0 \/ r.expire_timestamp >= clock)}

\* SELECT id, data, expire_timestamp FROM messages WHERE message_token=?1
SelectMessage(rows, message_token) ==
  {r \in rows : r.message_token = message_token}

\* A messages table whose message_token column is not UNIQUE.
InsertNeverViolates(rows, message_token) == FALSE

\* INSERT INTO messages ...: message_token is UNIQUE, a duplicate is an error.
InsertViolatesUnique(rows, message_token) ==
  \E r \in rows : r.message_token = message_token

InsertMessage(rows, message_token, expire_timestamp, data) ==
  rows \cup {[id |-> NextRowId(rows),
              message_token |-> message_token,
              expire_timestamp |-> expire_timestamp,
              data |-> data]}

\* DELETE FROM messages WHERE id=?1
DeleteMessageById(rows, id) == {r \in rows : r.id # id}

\* A sweep that also removes the messages expiring exactly at the limit.
DeleteExpiredInclusive(rows, limit_timestamp) ==
  {r \in rows : ~(r.expire_timestamp <= limit_timestamp)}

\* DELETE FROM messages WHERE expire_timestamp<?1
DeleteExpired(rows, limit_timestamp) ==
  {r \in rows : ~(r.expire_timestamp < limit_timestamp)}

\* The value try_consume_message returns for the rows its SELECT produced.
ConsumeFound(row) == [data |-> Some(row.data), expire_timestamp |-> row.expire_timestamp]
ConsumeNone == [data |-> None, expire_timestamp |-> 0]

\* A consume that forgets its DELETE.
ConsumeKeepsRow(rows, row) == rows

\* The rows left by try_consume_message after it read `row`.
ConsumeDelete(rows, row) == DeleteMessageById(rows, row.id)

\* --------------------------------------------------------- the users table
\* A row: [token, retention_limit_minutes, max_size_bytes,
\*         message_creation_limit_minutes, last_message_creation_timestamp];
\* the last column is nullable (None is NULL).  The id column is never read.
SelectUser(rows, token) == {r \in rows : r.token = token}

\* An upsert that replaces the whole row (INSERT OR REPLACE): the timestamp
\* column falls back to NULL.
UpsertReplacesRow(rows, token, retention_limit_minutes, max_size_bytes, message_creation_limit_minutes) ==
  {r \in rows : r.token # token} \cup
    {[token |-> token,
      retention_limit_minutes |-> retention_limit_minutes,
      max_size_bytes |-> max_size_bytes,
      message_creation_limit_minutes |-> message_creation_limit_minutes,
      last_message_creation_timestamp |-> None]}

\* INSERT INTO users (token, three limits) VALUES (...)
\*   ON CONFLICT(token) DO UPDATE SET the three limits
UpsertUserLimits(rows, token, retention_limit_minutes, max_size_bytes, message_creation_limit_minutes) ==
  IF SelectUser(rows, token) # {}
  THEN {IF r.token = token
        THEN [r EXCEPT !.retention_limit_minutes = retention_limit_minutes,
                       !.max_size_bytes = max_size_bytes,
                       !.message_creation_limit_minutes = message_creation_limit_minutes]
        ELSE r : r \in rows}
  ELSE rows \cup
         {[token |-> token,
           retention_limit_minutes |-> retention_limit_minutes,
           max_size_bytes |-> max_size_bytes,
           message_creation_limit_minutes |-> message_creation_limit_minutes,
           last_message_creation_timestamp |-> None]}

\* UPDATE users SET last_message_creation_timestamp=?1 WHERE token=?2
UpdateLastCreation(rows, token, timestamp) ==
  {IF r.token = token
   THEN [r EXCEPT !.last_message_creation_timestamp = Some(timestamp)]
   ELSE r : r \in rows}

\* A DELETE that lost its WHERE clause.
DeleteAllUsers(rows, token) == {}

\* DELETE FROM users WHERE token=?1
DeleteUser(rows, token) == {r \in rows : r.token # token}

\* row.get::<u32> of a column written from an i32: a negative INTEGER does not
\* convert, every other i32 does.
FitsU32(v) == v >= 0

\* The value (bool, u32, u32, u32) of get_user_limits, its components named as
\* create_new_message binds them.
Limits(is_found, retention_limit_minutes, max_size_bytes, message_creation_limit_minutes) ==
  [is_found |-> is_found, retention_limit_minutes |-> retention_limit_minutes,
   max_size_bytes |-> max_size_bytes,
   message_creation_limit_minutes |-> message_creation_limit_minutes]

\* What get_user_limits returns: Err, or Ok(is_found, retention, size, creation).
UserLimitsResult(rows, token) ==
  LET found == SelectUser(rows, token)
  IN IF found = {}
     THEN [status |-> "Ok", ret |-> Some(Limits(FALSE, 0, 0, 0))]
     ELSE LET r == CHOOSE x \in found : TRUE
          IN IF /\ FitsU32(r.retention_limit_minutes)
                /\ FitsU32(r.max_size_bytes)
                /\ FitsU32(r.message_creation_limit_minutes)
             THEN [status |-> "Ok",
                   ret |-> Some(Limits(TRUE, r.retention_limit_minutes, r.max_size_bytes,
                                         r.message_creation_limit_minutes))]
             ELSE [status |-> "Err", ret |-> None]

\* What get_user_last_message_creation_time returns: the column, or 0 when the
\* row is missing or the column is NULL (query_row(..).unwrap_or(0)).
LastCreationResult(rows, token) ==
  LET found == SelectUser(rows, token)
  IN IF found = {} THEN 0
     ELSE LET r == CHOOSE x \in found : TRUE
          IN IF r.last_message_creation_timestamp = None THEN 0
             ELSE CHOOSE v \in r.last_message_creation_timestamp : TRUE

\* --------------------------------------------------- the global_vars table
\* const MINIMAL_VERSION / const LATEST_VERSION
MINIMAL_VERSION == "0.1"
LATEST_VERSION == "0.1"

\* The version strings a store may carry, oldest first: one older than
\* MINIMAL_VERSION, the one of this build, one of a later build.
Versions == <<"0.0", "0.1", "0.2">>
VersionSet == {Versions[i] : i \in 1..Len(Versions)}

\* A row: [name, string_value]; name is the PRIMARY KEY.
VersionRow(version) == [name |-> "version", string_value |-> version]

\* SELECT string_value FROM global_vars WHERE name='version'
SelectVersion(rows) == {r.string_value : r \in {x \in rows : x.name = "version"}}

\* query_row(..).unwrap_or_else(|_| LATEST_VERSION.to_string())
VersionOrLatest(rows) ==
  IF SelectVersion(rows) = {} THEN LATEST_VERSION
  ELSE CHOOSE v \in SelectVersion(rows) : TRUE

\* A set_database_version that forgets its INSERT.
DeleteVersionOnly(rows, version) == {r \in rows : r.name # "version"}

\* DELETE FROM global_vars WHERE name='version';
\* INSERT INTO global_vars (name, string_value) VALUES ('version', ?1)
ReplaceVersion(rows, version) ==
  {r \in rows : r.name # "version"} \cup {VersionRow(version)}

\* fn make_all_updaters() -> Vec<DbUpdater> { vec![] }: the registered steps,
\* each named by the version it produces.
make_all_updaters == <<>>

\* The loop of make_updaters from position i on: `updaters` is what was pushed
\* so far, is_first_found whether pushing has begun.
RECURSIVE UpdatersLoop(_, _, _, _, _, _)
UpdatersLoop(all_updaters, i, is_first_found, updaters, version_from, version_to) ==
  IF i > Len(all_updaters) THEN updaters
  ELSE IF is_first_found
       THEN IF all_updaters[i] = version_to
            THEN Append(updaters, all_updaters[i])
            ELSE UpdatersLoop(all_updaters, i + 1, TRUE, Append(updaters, all_updaters[i]),
                              version_from, version_to)
       ELSE UpdatersLoop(all_updaters, i + 1, all_updaters[i] = version_from, updaters,
                         version_from, version_to)

\* fn make_updaters(version_from, version_to): [panics, updaters].
make_updaters(version_from, version_to) ==
  LET updaters == UpdatersLoop(make_all_updaters, 1, version_from = MINIMAL_VERSION, <<>>,
                               version_from, version_to)
  IN [panics |-> updaters # <<>> /\ updaters[Len(updaters)] # version_to,
      updaters |-> updaters]

\* update_version is not running.  Of its last call: `before` is the version
\* record it found, `previous` the step that came before it, `applied` the
\* migration steps it ran.
NoMigration ==
  [pc |-> "idle", current_version |-> "", before |-> None, previous |-> "", applied |-> <<>>]

\* ------------------------------------------------------------ observation
NoHistory ==
  [saved |-> FALSE, data |-> <<>>, expire_timestamp |-> 0,
   first |-> None, later |-> FALSE, swept |-> -1]

Max(a, b) == IF a >= b THEN a ELSE b

\* save_message returned Ok: a new message instance starts.
HistSave(h, message_token, expire_timestamp, data) ==
  [h EXCEPT ![message_token] =
     [saved |-> TRUE, data |-> data, expire_timestamp |-> expire_timestamp,
      first |-> None, later |-> FALSE, swept |-> -1]]

\* try_consume_message returned `ret`: the first result after the save is kept,
\* and whether any later one carried a payload.
HistConsume(h, message_token, ret) ==
  IF ~h[message_token].saved THEN h
  ELSE IF h[message_token].first = None
       THEN [h EXCEPT ![message_token].first = Some(ret)]
       ELSE [h EXCEPT ![message_token].later = @ \/ ret.data # None]

\* clear_expired_messages(limit) returned: the largest limit seen by each
\* message instance between its save and its first consume.
HistSweep(h, limit_timestamp) ==
  [t \in MsgTokens |->
     IF h[t].saved /\ h[t].first = None
     THEN [h[t] EXCEPT !.swept = Max(@, limit_timestamp)]
     ELSE h[t]]

\* args: the arguments as a tuple; status: "Ok" or "Err" (the Result); ret: the
\* value inside Ok when there is one.
Op(name, args, status, ret) == [op |-> name, args |-> args, status |-> status, ret |-> ret]

\* The form and the locals of a request; `now` is the time the cooldown check
\* read (-1: it read none), `before` the two tables as the request found them,
\* `token` the message token in the path of GET /shared/<token>.
NoRequest ==
  [user_token |-> "", message_data |-> <<>>, retention_limit_minutes |-> 0,
   user_retention_limit_minutes |-> 0, max_size_bytes |-> 0,
   message_creation_limit_minutes |-> 0,
   now |-> -1, before |-> [users |-> {}, messages |-> {}], token |-> ""]
NoResponse == [kind |-> "none", minutes_left |-> 0, message_token |-> ""]
Response(kind) == [kind |-> kind, minutes_left |-> 0, message_token |-> ""]

\* The database handle mutex when nobody owns it; `at` is the statement of
\* create_new_message whose temporary guard owns it.
NoOwner == [owner |-> Unlocked, at |-> ""]

NoCall == [token |-> "", rows |-> {}, ret |-> None, raced |-> FALSE, stored |-> FALSE]

\* ------------------------------------------------------------------- Init
\* OneTimeShareDb::connect on a new database: the tables are empty.
Init ==
  /\ users = {}
  /\ messages = {}
  /\ clock = 0
  /\ conn = Unlocked
  /\ pc = [c \in Consumers |-> "idle"]
  /\ loc = [c \in Consumers |-> NoCall]
  /\ app = Unlocked
  /\ appPoisoned = FALSE
  /\ hpc = [h \in Handlers |-> "idle"]
  /\ req = [h \in Handlers |-> NoRequest]
  /\ resp = [h \in Handlers |-> NoResponse]
  /\ lastOp = Op("connect", <<>>, "Ok", None)
  /\ hist = [t \in MsgTokens |-> NoHistory]
  /\ global_vars = {}
  /\ mig = NoMigration
  /\ db = NoOwner
  /\ sweeper = "idle"

\* ------------------------------------------------------- store operations
\* pub fn save_message(&self, message_token, expire_timestamp, data)
save_message(message_token, expire_timestamp, data) ==
  /\ MutexFree(conn)
  /\ IF InsertViolatesUnique(messages, message_token)
     THEN /\ lastOp' = Op("save_message", <<message_token>>, "Err", None)
          /\ UNCHANGED <<messages, hist>>
     ELSE /\ NextRowId(messages) <= MaxRowId
          /\ messages' = InsertMessage(messages, message_token, expire_timestamp, data)
          /\ hist' = HistSave(hist, message_token, expire_timestamp, data)
          /\ lastOp' = Op("save_message", <<message_token>>, "Ok", None)
  /\ UNCHANGED <<handlerVars, schemaVars>>
  /\ UNCHANGED <<users, clock, conn, pc, loc>>

\* pub fn try_consume_message(&self, message_token), the whole method
try_consume_message(message_token) ==
  /\ MutexFree(conn)
  /\ LET rows == SelectMessage(messages, message_token)
     IN IF rows # {}
        THEN LET row == CHOOSE r \in rows : TRUE
             IN /\ messages' = ConsumeDelete(messages, row)
                /\ hist' = HistConsume(hist, message_token, ConsumeFound(row))
                /\ lastOp' = Op("try_consume_message", <<message_token>>, "Ok",
                                Some(ConsumeFound(row)))
        ELSE /\ messages' = messages
             /\ hist' = HistConsume(hist, message_token, ConsumeNone)
             /\ lastOp' = Op("try_consume_message", <<message_token>>, "Ok",
                             Some(ConsumeNone))
  /\ UNCHANGED <<handlerVars, schemaVars>>
  /\ UNCHANGED <<users, clock, conn, pc, loc>>

\* pub fn clear_expired_messages(&self, limit_timestamp)
clear_expired_messages(limit_timestamp) ==
  /\ MutexFree(conn)
  /\ messages' = DeleteExpired(messages, limit_timestamp)
  /\ hist' = HistSweep(hist, limit_timestamp)
  /\ lastOp' = Op("clear_expired_messages", <<limit_timestamp>>, "Ok", None)
  /\ UNCHANGED <<handlerVars, schemaVars>>
  /\ UNCHANGED <<users, clock, conn, pc, loc>>

\* pub fn set_user_limits(&self, token, retention_limit_minutes, max_size_bytes,
\*                        message_creation_limit_minutes)
set_user_limits(token, retention_limit_minutes, max_size_bytes, message_creation_limit_minutes) ==
  /\ MutexFree(conn)
  /\ users' = UpsertUserLimits(users, token, retention_limit_minutes, max_size_bytes,
                               message_creation_limit_minutes)
  /\ lastOp' = Op("set_user_limits",
                  <<token, retention_limit_minutes, max_size_bytes,
                    message_creation_limit_minutes>>, "Ok", None)
  /\ UNCHANGED <<handlerVars, schemaVars>>
  /\ UNCHANGED <<messages, clock, conn, pc, loc, hist>>

\* pub fn get_user_limits(&self, token)
get_user_limits(token) ==
  /\ MutexFree(conn)
  /\ lastOp' = Op("get_user_limits", <<token>>, UserLimitsResult(users, token).status,
                  UserLimitsResult(users, token).ret)
  /\ UNCHANGED <<handlerVars, schemaVars>>
  /\ UNCHANGED <<users, messages, clock, conn, pc, loc, hist>>

\* pub fn set_user_last_message_creation_time(&self, token, timestamp)
set_user_last_message_creation_time(token, timestamp) ==
  /\ MutexFree(conn)
  /\ users' = UpdateLastCreation(users, token, timestamp)
  /\ lastOp' = Op("set_user_last_message_creation_time", <<token, timestamp>>, "Ok", None)
  /\ UNCHANGED <<handlerVars, schemaVars>>
  /\ UNCHANGED <<messages, clock, conn, pc, loc, hist>>

\* pub fn get_user_last_message_creation_time(&self, token)
get_user_last_message_creation_time(token) ==
  /\ MutexFree(conn)
  /\ lastOp' = Op("get_user_last_message_creation_time", <<token>>, "Ok",
                  Some(LastCreationResult(users, token)))
  /\ UNCHANGED <<handlerVars, schemaVars>>
  /\ UNCHANGED <<users, messages, clock, conn, pc, loc, hist>>

\* pub fn remove_user_by_token(&self, token); the step keeps the number of rows
\* the DELETE removed, which the method drops.
remove_user_by_token(token) ==
  /\ MutexFree(conn)
  /\ users' = DeleteUser(users, token)
  /\ lastOp' = Op("remove_user_by_token", <<token>>, "Ok",
                  Some(Cardinality(SelectUser(users, token))))
  /\ UNCHANGED <<handlerVars, schemaVars>>
  /\ UNCHANGED <<messages, clock, conn, pc, loc, hist>>

\* The system clock moves (SystemTime is not monotonic).
Tick(times) ==
  /\ \E t \in times : t # clock /\ clock' = t
  /\ lastOp' = Op("tick", <<>>, "Ok", None)
  /\ UNCHANGED <<handlerVars, schemaVars>>
  /\ UNCHANGED <<users, messages, conn, pc, loc, hist>>

\* -------------------------------------------------- SpecStore: one caller
StoreSave == \E t \in MsgTokens, e \in Timestamps, d \in StorePayloads : save_message(t, e, d)
StoreConsume == \E t \in MsgTokens : try_consume_message(t)
StoreSweep == \E n \in SweepLimits : clear_expired_messages(n)
StoreTick == Tick(Timestamps)

\* Quota provisioning going on next to the message traffic.
StoreUsers ==
  \E u \in {"u1"} :
    \/ set_user_limits(u, 1, 2, 3)
    \/ remove_user_by_token(u)

NextStore == StoreSave \/ StoreConsume \/ StoreSweep \/ StoreTick \/ StoreUsers

SpecStore == Init /\ [][NextStore]_vars

\* ------------------------- try_consume_message, statement by statement
\* A thread calls try_consume_message(message_token).
ConsumeCall(c, message_token) ==
  /\ pc[c] = "idle"
  /\ pc' = [pc EXCEPT ![c] = "lock"]
  /\ loc' = [loc EXCEPT ![c] =
       [token |-> message_token, rows |-> {}, ret |-> None,
        raced |-> \E d \in Consumers \ {c} :
                    pc[d] # "idle" /\ loc[d].token = message_token,
        stored |-> InsertViolatesUnique(messages, message_token)]]
  /\ UNCHANGED <<handlerVars, schemaVars>>
  /\ UNCHANGED <<users, messages, clock, conn, lastOp, hist>>

\* let conn = self.conn.lock().unwrap();
ConsumeLock(c) ==
  /\ pc[c] = "lock"
  /\ MutexFree(conn)
  /\ conn' = c
  /\ pc' = [pc EXCEPT ![c] = "query"]
  /\ UNCHANGED <<handlerVars, schemaVars>>
  /\ UNCHANGED <<users, messages, clock, loc, lastOp, hist>>

\* stmt.query(params![message_token]); rows.next()
ConsumeQuery(c) ==
  /\ pc[c] = "query"
  /\ loc' = [loc EXCEPT ![c].rows = SelectMessage(messages, loc[c].token)]
  /\ pc' = [pc EXCEPT ![c] = IF SelectMessage(messages, loc[c].token) # {}
                             THEN "delete" ELSE "return"]
  /\ UNCHANGED <<handlerVars, schemaVars>>
  /\ UNCHANGED <<users, messages, clock, conn, lastOp, hist>>

\* conn.execute("DELETE FROM messages WHERE id=?1", params![id])
ConsumeDeleteRow(c) ==
  /\ pc[c] = "delete"
  /\ messages' = ConsumeDelete(messages, CHOOSE r \in loc[c].rows : TRUE)
  /\ pc' = [pc EXCEPT ![c] = "return"]
  /\ UNCHANGED <<handlerVars, schemaVars>>
  /\ UNCHANGED <<users, clock, conn, loc, lastOp, hist>>

\* Ok((Some(data), expire_timestamp)) / Ok((None, 0)); the guard is dropped.
ConsumeReturn(c) ==
  /\ pc[c] = "return"
  /\ LET ret == IF loc[c].rows # {}
                THEN ConsumeFound(CHOOSE r \in loc[c].rows : TRUE)
                ELSE ConsumeNone
     IN /\ loc' = [loc EXCEPT ![c].ret = Some(ret)]
        /\ hist' = HistConsume(hist, loc[c].token, ret)
        /\ lastOp' = Op("try_consume_message", <<loc[c].token>>, "Ok", Some(ret))
  /\ conn' = Unlocked
  /\ pc' = [pc EXCEPT ![c] = "idle"]
  /\ UNCHANGED <<handlerVars, schemaVars>>
  /\ UNCHANGED <<users, messages, clock>>

\* ------------------------------------- SpecConsume: concurrent consumers
ConcCall == \E c \in Consumers, t \in MsgTokens : ConsumeCall(c, t)
ConcLock == \E c \in Consumers : ConsumeLock(c)
ConcQuery == \E c \in Consumers : ConsumeQuery(c)
ConcDelete == \E c \in Consumers : ConsumeDeleteRow(c)
ConcReturn == \E c \in Consumers : ConsumeReturn(c)
ConcSave == \E t \in MsgTokens, d \in StorePayloads : save_message(t, MaxTime, d)
ConcSweep == clear_expired_messages(MaxTime + 1)

NextConsume ==
  ConcCall \/ ConcLock \/ ConcQuery \/ ConcDelete \/ ConcReturn \/ ConcSave \/ ConcSweep

SpecConsume == Init /\ [][NextConsume]_vars

\* ------------------------------------------------- base64 (STANDARD engine)
B64Chars ==
  <<"A", "B", "C", "D", "E", "F", "G", "H", "I", "J", "K", "L", "M", "N", "O", "P",
    "Q", "R", "S", "T", "U", "V", "W", "X", "Y", "Z", "a", "b", "c", "d", "e", "f",
    "g", "h", "i", "j", "k", "l", "m", "n", "o", "p", "q", "r", "s", "t", "u", "v",
    "w", "x", "y", "z", "0", "1", "2", "3", "4", "5", "6", "7", "8", "9", "+", "/">>

\* The 6-bit value of a symbol, -1 for a character outside the alphabet.
B64Value(ch) ==
  IF \E i \in 1..Len(B64Chars) : B64Chars[i] = ch
  THEN (CHOOSE i \in 1..Len(B64Chars) : B64Chars[i] = ch) - 1
  ELSE -1

\* The number of "=" that end the text.
RECURSIVE B64PadCount(_)
B64PadCount(s) ==
  IF s # <<>> /\ s[Len(s)] = "=" THEN 1 + B64PadCount(SubSeq(s, 1, Len(s) - 1)) ELSE 0

B64Symbols(s) == SubSeq(s, 1, Len(s) - B64PadCount(s))

\* STANDARD.decode(s) is Ok: symbols of the alphabet only, canonical padding to
\* a multiple of four, and no set bits after the last whole byte.
B64Valid(s) ==
  LET sym == B64Symbols(s)
      n == Len(sym)
  IN /\ \A i \in 1..n : B64Value(sym[i]) >= 0
     /\ n % 4 # 1
     /\ B64PadCount(s) = (4 - (n % 4)) % 4
     /\ (n % 4 = 2 => B64Value(sym[n]) % 16 = 0)
     /\ (n % 4 = 3 => B64Value(sym[n]) % 4 = 0)

\* STANDARD.decode(s).unwrap().len()
B64DecodedLen(s) == (Len(B64Symbols(s)) * 6) \div 8

\* --------------------------------------------------- create_new_message
SecondsPerMinute == 60

\* time_passed < (message_creation_limit_minutes as i64 * 60)
CooldownActive(time_passed, message_creation_limit_minutes) ==
  time_passed < message_creation_limit_minutes * SecondsPerMinute

\* Rust's integer division truncates toward zero.
TruncDiv(a, b) == IF a >= 0 THEN a \div b ELSE -((-a) \div b)

\* (time_passed / 60) as u32 subtracted from the limit in u32: for a negative
\* quotient q the cast gives 2^32 + q, the subtraction falls below zero, and
\* the wrapped difference is limit - q.
MinutesLeftOverflows(time_passed) == TruncDiv(time_passed, SecondsPerMinute) < 0
MinutesLeft(time_passed, message_creation_limit_minutes) ==
  message_creation_limit_minutes - TruncDiv(time_passed, SecondsPerMinute)

\* A size check that refuses a payload of exactly the limit.
TooBigAtLimit(message_data, max_size_bytes) ==
  max_size_bytes > 0 /\ B64DecodedLen(message_data) >= max_size_bytes

\* max_size_bytes > 0 && decode(message_data).unwrap().len() > max_size_bytes
DecodePanics(message_data, max_size_bytes) ==
  max_size_bytes > 0 /\ ~B64Valid(message_data)
TooBig(message_data, max_size_bytes) ==
  max_size_bytes > 0 /\ B64DecodedLen(message_data) > max_size_bytes

\* A retention check that refuses a request of exactly the limit.
RetentionTooBigAtLimit(retention_limit_minutes, user_retention_limit_minutes) ==
  /\ retention_limit_minutes > 0
  /\ user_retention_limit_minutes > 0
  /\ retention_limit_minutes >= user_retention_limit_minutes

\* retention_limit_minutes > 0 && user_retention_limit_minutes > 0
\*   && retention_limit_minutes > user_retention_limit_minutes
RetentionTooBig(retention_limit_minutes, user_retention_limit_minutes) ==
  /\ retention_limit_minutes > 0
  /\ user_retention_limit_minutes > 0
  /\ retention_limit_minutes > user_retention_limit_minutes

\* An expiry that adds the minutes as if they were seconds.
ExpireInMinutes(now, retention_limit_minutes) ==
  IF retention_limit_minutes > 0 THEN now + retention_limit_minutes ELSE 0

\* if retention_limit_minutes > 0 { now + retention_limit_minutes as u64 * 60 } else { 0 }
ExpireTimestamp(now, retention_limit_minutes) ==
  IF retention_limit_minutes > 0
  THEN now + retention_limit_minutes * SecondsPerMinute
  ELSE 0

\* A handler step leaves the consumers alone.
HandlerFrame == UNCHANGED <<pc, loc, conn, schemaVars, db, sweeper>>

\* The handler returns `r`: the guard `data` is dropped.
Respond(h, r) ==
  /\ resp' = [resp EXCEPT ![h] = r]
  /\ hpc' = [hpc EXCEPT ![h] = "respond"]

\* The handler panics while it owns the application-state mutex: the mutex is
\* released poisoned.
Panic(h) ==
  /\ resp' = [resp EXCEPT ![h] = Response("Panic")]
  /\ hpc' = [hpc EXCEPT ![h] = "idle"]
  /\ req' = [req EXCEPT ![h] = NoRequest]
  /\ app' = Unlocked
  /\ appPoisoned' = TRUE

\* POST /save arrives at a task that has served nothing yet;
\* let form = req.body_form(); form.retention.unwrap_or(0)
H_Request(h, user_token, message_data, retention) ==
  /\ hpc[h] = "idle"
  /\ resp[h] = NoResponse
  /\ hpc' = [hpc EXCEPT ![h] = "lock"]
  /\ req' = [req EXCEPT ![h] =
       [NoRequest EXCEPT !.user_token = user_token,
                         !.message_data = message_data,
                         !.retention_limit_minutes =
                            IF retention = None THEN 0 ELSE CHOOSE n \in retention : TRUE,
                         !.before = [users |-> users, messages |-> messages]]]
  /\ lastOp' = Op("request", <<h>>, "Ok", None)
  /\ UNCHANGED <<users, messages, clock, resp, app, appPoisoned, hist>>
  /\ HandlerFrame

\* let data = req.state().lock().unwrap();
H_Lock(h) ==
  /\ hpc[h] = "lock"
  /\ MutexFree(app)
  /\ IF appPoisoned
     THEN /\ resp' = [resp EXCEPT ![h] = Response("Panic")]
          /\ hpc' = [hpc EXCEPT ![h] = "idle"]
          /\ req' = [req EXCEPT ![h] = NoRequest]
          /\ UNCHANGED app
     ELSE /\ app' = h
          /\ hpc' = [hpc EXCEPT ![h] = "limits"]
          /\ UNCHANGED <<req, resp>>
  /\ lastOp' = Op("lock", <<h>>, "Ok", None)
  /\ UNCHANGED <<users, messages, clock, appPoisoned, hist>>
  /\ HandlerFrame

\* data.database.lock().unwrap().get_user_limits(&form.user_token)?;
\* if !is_found { return 404 "User not found" }
H_GetUserLimits(h) ==
  /\ hpc[h] = "limits"
  /\ MutexFree(conn)
  /\ LET got == UserLimitsResult(users, req[h].user_token)
     IN IF got.status = "Err"
        THEN Respond(h, Response("Err")) /\ UNCHANGED req
        ELSE LET t == CHOOSE x \in got.ret : TRUE
             IN IF ~t.is_found
                THEN Respond(h, Response("UserNotFound")) /\ UNCHANGED req
                ELSE /\ req' = [req EXCEPT ![h].user_retention_limit_minutes = t.retention_limit_minutes,
                                           ![h].max_size_bytes = t.max_size_bytes,
                                           ![h].message_creation_limit_minutes = t.message_creation_limit_minutes]
                     /\ hpc' = [hpc EXCEPT ![h] = "cooldown"]
                     /\ UNCHANGED resp
  /\ lastOp' = Op("get_user_limits", <<req[h].user_token>>,
                  UserLimitsResult(users, req[h].user_token).status,
                  UserLimitsResult(users, req[h].user_token).ret)
  /\ UNCHANGED <<users, messages, clock, app, appPoisoned, hist>>
  /\ HandlerFrame

\* if message_creation_limit_minutes > 0 { get_user_last_message_creation_time;
\*   if last_creation_time > 0 { time_passed = now - last_creation_time;
\*     if time_passed < limit * 60 { return 400 "... Wait for {minutes_left}" } } }
H_Cooldown(h) ==
  /\ hpc[h] = "cooldown"
  /\ LET limit == req[h].message_creation_limit_minutes
         last_creation_time == LastCreationResult(users, req[h].user_token)
         time_passed == clock - last_creation_time
     IN IF limit > 0
        THEN /\ MutexFree(conn)
             /\ IF last_creation_time > 0 /\ CooldownActive(time_passed, limit)
                THEN \/ /\ Respond(h, [Response("RateLimited") EXCEPT
                                         !.minutes_left = MinutesLeft(time_passed, limit)])
                        /\ UNCHANGED <<req, app, appPoisoned>>
                     \/ /\ MinutesLeftOverflows(time_passed)
                        /\ Panic(h)
                ELSE /\ hpc' = [hpc EXCEPT ![h] = "size"]
                     /\ req' = [req EXCEPT ![h].now =
                                  IF last_creation_time > 0 THEN clock ELSE -1]
                     /\ UNCHANGED <<resp, app, appPoisoned>>
        ELSE /\ hpc' = [hpc EXCEPT ![h] = "size"]
             /\ UNCHANGED <<req, resp, app, appPoisoned>>
  /\ lastOp' = Op("cooldown", <<h>>, "Ok", None)
  /\ UNCHANGED <<users, messages, clock, hist>>
  /\ HandlerFrame

\* A size check placed after the retention check: a request over both limits
\* is answered "Requested retention limit is bigger than allowed".
H_SizeAfterRetention(h) ==
  /\ hpc[h] = "size"
  /\ IF RetentionTooBig(req[h].retention_limit_minutes, req[h].user_retention_limit_minutes)
     THEN Respond(h, Response("RetentionTooBig")) /\ UNCHANGED <<req, app, appPoisoned>>
     ELSE IF DecodePanics(req[h].message_data, req[h].max_size_bytes)
          THEN Panic(h)
          ELSE IF TooBig(req[h].message_data, req[h].max_size_bytes)
               THEN Respond(h, Response("TooBig")) /\ UNCHANGED <<req, app, appPoisoned>>
               ELSE /\ hpc' = [hpc EXCEPT ![h] = "record"]
                    /\ UNCHANGED <<req, resp, app, appPoisoned>>
  /\ lastOp' = Op("size", <<h>>, "Ok", None)
  /\ UNCHANGED <<users, messages, clock, hist>>
  /\ HandlerFrame

\* if max_size_bytes > 0 && STANDARD.decode(..).unwrap().len() > max_size_bytes
\*   { return 400 "Message is too big" }
H_Size(h) ==
  /\ hpc[h] = "size"
  /\ IF DecodePanics(req[h].message_data, req[h].max_size_bytes)
     THEN Panic(h)
     ELSE IF TooBig(req[h].message_data, req[h].max_size_bytes)
          THEN Respond(h, Response("TooBig")) /\ UNCHANGED <<req, app, appPoisoned>>
          ELSE /\ hpc' = [hpc EXCEPT ![h] = "retention"]
               /\ UNCHANGED <<req, resp, app, appPoisoned>>
  /\ lastOp' = Op("size", <<h>>, "Ok", None)
  /\ UNCHANGED <<users, messages, clock, hist>>
  /\ HandlerFrame

\* A handler that records the creation time before its retention check.
H_RetentionAfterRecord(h) ==
  /\ hpc[h] = "retention"
  /\ users' = UpdateLastCreation(users, req[h].user_token, clock)
  /\ IF RetentionTooBig(req[h].retention_limit_minutes, req[h].user_retention_limit_minutes)
     THEN Respond(h, Response("RetentionTooBig"))
     ELSE /\ hpc' = [hpc EXCEPT ![h] = "record"]
          /\ UNCHANGED resp
  /\ lastOp' = Op("retention", <<h>>, "Ok", None)
  /\ UNCHANGED <<messages, clock, req, app, appPoisoned, hist>>
  /\ HandlerFrame

\* if retention_limit_minutes > 0 && user_retention_limit_minutes > 0 && ... >
\*   { return 400 "Requested retention limit is bigger than allowed" }
H_Retention(h) ==
  /\ hpc[h] = "retention"
  /\ IF RetentionTooBig(req[h].retention_limit_minutes, req[h].user_retention_limit_minutes)
     THEN Respond(h, Response("RetentionTooBig"))
     ELSE /\ hpc' = [hpc EXCEPT ![h] = "record"]
          /\ UNCHANGED resp
  /\ lastOp' = Op("retention", <<h>>, "Ok", None)
  /\ UNCHANGED <<users, messages, clock, req, app, appPoisoned, hist>>
  /\ HandlerFrame

\* data.database.lock().unwrap().set_user_last_message_creation_time(token, now)?;
H_RecordCreation(h) ==
  /\ hpc[h] = "record"
  /\ MutexFree(conn)
  /\ users' = UpdateLastCreation(users, req[h].user_token, clock)
  /\ hpc' = [hpc EXCEPT ![h] = "save"]
  /\ lastOp' = Op("set_user_last_message_creation_time", <<req[h].user_token, clock>>,
                  "Ok", None)
  /\ UNCHANGED <<messages, clock, req, resp, app, appPoisoned, hist>>
  /\ HandlerFrame

\* let message_token = Uuid::new_v4(); expire_timestamp = ...;
\* data.database.lock().unwrap().save_message(&message_token, expire, &form.message_data)?;
\* Ok(200, url_to_share)
H_Save(h, message_token) ==
  /\ hpc[h] = "save"
  /\ MutexFree(conn)
  /\ IF InsertViolatesUnique(messages, message_token)
     THEN /\ Respond(h, Response("Err"))
          /\ lastOp' = Op("save_message", <<message_token>>, "Err", None)
          /\ UNCHANGED <<messages, hist>>
     ELSE /\ NextRowId(messages) <= MaxRowId
          /\ messages' = InsertMessage(messages, message_token,
                                       ExpireTimestamp(clock, req[h].retention_limit_minutes),
                                       req[h].message_data)
          /\ hist' = HistSave(hist, message_token,
                              ExpireTimestamp(clock, req[h].retention_limit_minutes),
                              req[h].message_data)
          /\ Respond(h, [Response("Ok") EXCEPT !.message_token = message_token])
          /\ lastOp' = Op("save_message", <<message_token>>, "Ok", None)
  /\ UNCHANGED <<users, clock, req, app, appPoisoned>>
  /\ HandlerFrame

\* The response leaves the handler; `data` goes out of scope.
H_Respond(h) ==
  /\ hpc[h] = "respond"
  /\ hpc' = [hpc EXCEPT ![h] = "idle"]
  /\ req' = [req EXCEPT ![h] = NoRequest]
  /\ app' = Unlocked
  /\ lastOp' = Op("respond", <<h>>, "Ok", None)
  /\ UNCHANGED <<users, messages, clock, resp, appPoisoned, hist>>
  /\ HandlerFrame

\* ----------------------------------------- SpecCreate: creation requests
\* The quota row of user "u1" before the requests: any limits, never created
\* or created at some moment.
CreateUserRows ==
  {[token |-> "u1", retention_limit_minutes |-> r, max_size_bytes |-> s,
    message_creation_limit_minutes |-> c, last_message_creation_timestamp |-> l] :
     r \in RetentionLimits \cup {-1}, s \in SizeLimits, c \in CreationLimits,
     l \in {None} \cup {{t} : t \in CreateTimes}}

\* A store that has served quota provisioning, and possibly requests, before.
InitCreate ==
  /\ users \in {{}} \cup {{r} : r \in CreateUserRows}
  /\ \/ messages = {} /\ hist = [t \in MsgTokens |-> NoHistory]
     \/ /\ messages = {EarlierMessage}
        /\ hist = HistSave([t \in MsgTokens |-> NoHistory], EarlierMessage.message_token,
                           EarlierMessage.expire_timestamp, EarlierMessage.data)
  /\ clock \in CreateTimes
  /\ conn = Unlocked
  /\ pc = [c \in Consumers |-> "idle"]
  /\ loc = [c \in Consumers |-> NoCall]
  /\ app = Unlocked
  /\ appPoisoned = FALSE
  /\ hpc = [h \in Handlers |-> "idle"]
  /\ req = [h \in Handlers |-> NoRequest]
  /\ resp = [h \in Handlers |-> NoResponse]
  /\ lastOp = Op("connect", <<>>, "Ok", None)
  /\ global_vars = {VersionRow(LATEST_VERSION)}
  /\ mig = NoMigration
  /\ db = NoOwner
  /\ sweeper = "idle"

CreateRequest ==
  \E h \in Handlers, u \in UserTokens, d \in FormPayloads, r \in FormRetentions :
    H_Request(h, u, d, r)
CreateLock == \E h \in Handlers : H_Lock(h)
CreateGetUserLimits == \E h \in Handlers : H_GetUserLimits(h)
CreateCooldown == \E h \in Handlers : H_Cooldown(h)
CreateSize == \E h \in Handlers : H_Size(h)
CreateRetention == \E h \in Handlers : H_Retention(h)
CreateRecordCreation == \E h \in Handlers : H_RecordCreation(h)
CreateSave == \E h \in Handlers, t \in MsgTokens : H_Save(h, t)
CreateRespond == \E h \in Handlers : H_Respond(h)
CreateTick == Tick(CreateTimes)

NextCreate ==
  \/ CreateRequest \/ CreateLock \/ CreateGetUserLimits \/ CreateCooldown
  \/ CreateSize \/ CreateRetention \/ CreateRecordCreation \/ CreateSave
  \/ CreateRespond \/ CreateTick

SpecCreate == InitCreate /\ [][NextCreate]_vars

\* --------------------------- SpecRace: two creation requests at one time
\* Two tasks of the server, each serving one POST /save of user "u1".
Racers == {"h1", "h2"}

\* The quota row of "u1" before the two requests: no size or retention limit,
\* any creation limit, never created or created at some moment.
RaceUserRows ==
  {[token |-> "u1", retention_limit_minutes |-> 0, max_size_bytes |-> 0,
    message_creation_limit_minutes |-> c, last_message_creation_timestamp |-> l] :
     c \in CreationLimits, l \in {None} \cup {{t} : t \in CreateTimes}}

InitRace ==
  /\ users \in {{r} : r \in RaceUserRows}
  /\ messages = {}
  /\ hist = [t \in MsgTokens |-> NoHistory]
  /\ clock \in CreateTimes
  /\ conn = Unlocked
  /\ pc = [c \in Consumers |-> "idle"]
  /\ loc = [c \in Consumers |-> NoCall]
  /\ app = Unlocked
  /\ appPoisoned = FALSE
  /\ hpc = [h \in Racers |-> "idle"]
  /\ req = [h \in Racers |-> NoRequest]
  /\ resp = [h \in Racers |-> NoResponse]
  /\ lastOp = Op("connect", <<>>, "Ok", None)
  /\ global_vars = {VersionRow(LATEST_VERSION)}
  /\ mig = NoMigration
  /\ db = NoOwner
  /\ sweeper = "idle"

RaceRequest == \E h \in Racers : H_Request(h, "u1", <<"Q", "Q", "=", "=">>, None)
RaceLock == \E h \in Racers : H_Lock(h)
RaceGetUserLimits == \E h \in Racers : H_GetUserLimits(h)
RaceCooldown == \E h \in Racers : H_Cooldown(h)
RaceSize == \E h \in Racers : H_Size(h)
RaceRetention == \E h \in Racers : H_Retention(h)
RaceRecordCreation == \E h \in Racers : H_RecordCreation(h)
RaceSave == \E h \in Racers, t \in MsgTokens : H_Save(h, t)
RaceRespond == \E h \in Racers : H_Respond(h)
RaceTick == Tick(CreateTimes)

NextRace ==
  \/ RaceRequest \/ RaceLock \/ RaceGetUserLimits \/ RaceCooldown
  \/ RaceSize \/ RaceRetention \/ RaceRecordCreation \/ RaceSave
  \/ RaceRespond \/ RaceTick

SpecRace == InitRace /\ [][NextRace]_vars

\* ------------------------------------ SpecServe: requests after a failure
\* GET / arrives at a task that has served nothing yet.
HomeRequest(h) ==
  /\ hpc[h] = "idle"
  /\ resp[h] = NoResponse
  /\ hpc' = [hpc EXCEPT ![h] = "home"]
  /\ lastOp' = Op("request", <<h>>, "Ok", None)
  /\ UNCHANGED <<users, messages, clock, req, resp, app, appPoisoned, hist>>
  /\ HandlerFrame

\* let data = req.state().lock().unwrap(); Ok(200, data.default_index_html)
\* The guard lives to the end of the function: the mutex is taken and given
\* back in this step.  lock() on a poisoned mutex is Err, unwrap panics.
home_page(h) ==
  /\ hpc[h] = "home"
  /\ MutexFree(app)
  /\ resp' = [resp EXCEPT ![h] = IF appPoisoned THEN Response("Panic") ELSE Response("Home")]
  /\ hpc' = [hpc EXCEPT ![h] = "idle"]
  /\ lastOp' = Op("home_page", <<h>>, "Ok", None)
  /\ UNCHANGED <<users, messages, clock, req, app, appPoisoned, hist>>
  /\ HandlerFrame

\* GET /shared/<token> arrives at a task that has served nothing yet;
\* if token.is_empty() { return 400 "Token is empty" }
SharedRequest(h, token) ==
  /\ hpc[h] = "idle"
  /\ resp[h] = NoResponse
  /\ IF token = ""
     THEN /\ resp' = [resp EXCEPT ![h] = Response("TokenEmpty")]
          /\ UNCHANGED <<hpc, req>>
     ELSE /\ hpc' = [hpc EXCEPT ![h] = "shared"]
          /\ req' = [req EXCEPT ![h] = [NoRequest EXCEPT !.token = token]]
          /\ UNCHANGED resp
  /\ lastOp' = Op("request", <<h>>, "Ok", None)
  /\ UNCHANGED <<users, messages, clock, app, appPoisoned, hist>>
  /\ HandlerFrame

\* let data = req.state().lock().unwrap();
\* Ok(200, shared_html.replace("{{.MessageToken}}", token))
shared_page(h) ==
  /\ hpc[h] = "shared"
  /\ MutexFree(app)
  /\ resp' = [resp EXCEPT ![h] =
       IF appPoisoned THEN Response("Panic")
       ELSE [Response("Shared") EXCEPT !.message_token = req[h].token]]
  /\ hpc' = [hpc EXCEPT ![h] = "idle"]
  /\ req' = [req EXCEPT ![h] = NoRequest]
  /\ lastOp' = Op("shared_page", <<h>>, "Ok", None)
  /\ UNCHANGED <<users, messages, clock, app, appPoisoned, hist>>
  /\ HandlerFrame

\* Two tasks of the server, each serving one request.
Servers == {"h1", "h2"}

\* The quota row of "u1": any size limit, any creation limit, no retention
\* limit, never created or created at second 1.
ServeUserRows ==
  {[token |-> "u1", retention_limit_minutes |-> 0, max_size_bytes |-> s,
    message_creation_limit_minutes |-> c, last_message_creation_timestamp |-> l] :
     s \in SizeLimits, c \in CreationLimits, l \in {None, {1}}}

\* Forms of POST /save: a payload that decodes to 1 byte, one that decodes to
\* 3 bytes, one that is short of padding.
ServePayloads == {<<"Q", "Q", "=", "=">>, <<"Q", "U", "J", "D">>, <<"Q", "Q", "=">>}

\* A running server: quota provisioned, one message stored earlier.  The two
\* requests are served within one second of the clock, which is never a whole
\* minute behind a stored creation time.
InitServe ==
  /\ users \in {{r} : r \in ServeUserRows}
  /\ messages = {EarlierMessage}
  /\ hist = HistSave([t \in MsgTokens |-> NoHistory], EarlierMessage.message_token,
                     EarlierMessage.expire_timestamp, EarlierMessage.data)
  /\ clock \in CreateTimes
  /\ conn = Unlocked
  /\ pc = [c \in Consumers |-> "idle"]
  /\ loc = [c \in Consumers |-> NoCall]
  /\ app = Unlocked
  /\ appPoisoned = FALSE
  /\ hpc = [h \in Servers |-> "idle"]
  /\ req = [h \in Servers |-> NoRequest]
  /\ resp = [h \in Servers |-> NoResponse]
  /\ lastOp = Op("connect", <<>>, "Ok", None)
  /\ global_vars = {VersionRow(LATEST_VERSION)}
  /\ mig = NoMigration
  /\ db = NoOwner
  /\ sweeper = "idle"

NextServe ==
  \/ \E h \in Servers, u \in UserTokens, d \in ServePayloads : H_Request(h, u, d, None)
  \/ \E h \in Servers : HomeRequest(h)
  \/ \E h \in Servers, t \in {"", "tokA"} : SharedRequest(h, t)
  \/ \E h \in Servers : home_page(h)
  \/ \E h \in Servers : shared_page(h)
  \/ \E h \in Servers : H_Lock(h)
  \/ \E h \in Servers : H_GetUserLimits(h)
  \/ \E h \in Servers : H_Cooldown(h)
  \/ \E h \in Servers : H_Size(h)
  \/ \E h \in Servers : H_Retention(h)
  \/ \E h \in Servers : H_RecordCreation(h)
  \/ \E h \in Servers, t \in MsgTokens : H_Save(h, t)
  \/ \E h \in Servers : H_Respond(h)

SpecServe == InitServe /\ [][NextServe]_vars

\* ------------------------- SpecLive: handlers, consumers and a sweeper
\* The statements of create_new_message that call a method of the store:
\* data.database.lock().unwrap().<method>(..)
CallsStore(h) ==
  \/ hpc[h] \in {"limits", "record", "save"}
  \/ hpc[h] = "cooldown" /\ req[h].message_creation_limit_minutes > 0

\* data.database.lock().unwrap(): the temporary guard of the statement.
L_Database(h) ==
  /\ CallsStore(h)
  /\ MutexFree(db.owner)
  /\ db' = [owner |-> h, at |-> hpc[h]]
  /\ UNCHANGED <<users, messages, clock, conn, pc, loc, app, appPoisoned, hpc, req, resp>>
  /\ UNCHANGED <<lastOp, hist, schemaVars, sweeper>>

\* .get_user_limits(..) / .get_user_last_message_creation_time(..) /
\* .set_user_last_message_creation_time(..) / .save_message(..) under the
\* guard: the method takes the connection mutex, runs and gives it back.
L_Call(h) ==
  /\ db = [owner |-> h, at |-> hpc[h]]
  /\ \/ H_GetUserLimits(h)
     \/ H_Cooldown(h)
     \/ H_RecordCreation(h)
     \/ \E t \in {"tokB"} : H_Save(h, t)

\* A guard that outlives its statement.
L_Keep(h) ==
  /\ db.owner = h
  /\ db.at # hpc[h]
  /\ db' = [db EXCEPT !.at = "kept"]
  /\ UNCHANGED <<users, messages, clock, conn, pc, loc, app, appPoisoned, hpc, req, resp>>
  /\ UNCHANGED <<lastOp, hist, schemaVars, sweeper>>

\* The statement ends: the temporary guard is dropped.
L_Drop(h) ==
  /\ db.owner = h
  /\ db.at # hpc[h]
  /\ db' = NoOwner
  /\ UNCHANGED <<users, messages, clock, conn, pc, loc, app, appPoisoned, hpc, req, resp>>
  /\ UNCHANGED <<lastOp, hist, schemaVars, sweeper>>

\* The statements that call no method of the store.
L_Step(h) ==
  /\ db.owner # h
  /\ ~CallsStore(h)
  /\ \/ H_Cooldown(h)
     \/ H_Size(h)
     \/ H_Retention(h)
     \/ H_Respond(h)

\* The sweeper calls clear_expired_messages through the shared handle (the
\* store is moved into its mutex before the server starts).
SweepCall ==
  /\ sweeper = "idle"
  /\ sweeper' = "database"
  /\ UNCHANGED <<users, messages, clock, conn, pc, loc, app, appPoisoned, hpc, req, resp>>
  /\ UNCHANGED <<lastOp, hist, schemaVars, db>>

\* database.lock().unwrap()
SweepDatabase ==
  /\ sweeper = "database"
  /\ MutexFree(db.owner)
  /\ db' = [owner |-> "sweeper", at |-> "sweep"]
  /\ sweeper' = "lock"
  /\ UNCHANGED <<users, messages, clock, conn, pc, loc, app, appPoisoned, hpc, req, resp>>
  /\ UNCHANGED <<lastOp, hist, schemaVars>>

\* clear_expired_messages(limit_timestamp) of the sweeper: the method takes
\* the connection mutex, deletes and gives it back; the statement ends.
SweepRun(limit_timestamp) ==
  /\ sweeper = "lock"
  /\ db.owner = "sweeper"
  /\ MutexFree(conn)
  /\ messages' = DeleteExpired(messages, limit_timestamp)
  /\ hist' = HistSweep(hist, limit_timestamp)
  /\ lastOp' = Op("clear_expired_messages", <<"sweeper", limit_timestamp>>, "Ok", None)
  /\ db' = NoOwner
  /\ sweeper' = "idle"
  /\ UNCHANGED <<users, clock, conn, pc, loc, app, appPoisoned, hpc, req, resp, schemaVars>>

\* The quota row of "u1": a size limit of 1 byte, a creation limit of 1
\* minute, no message created yet.
LiveUserRows ==
  {[token |-> "u1", retention_limit_minutes |-> 0, max_size_bytes |-> 1,
    message_creation_limit_minutes |-> c, last_message_creation_timestamp |-> None] :
     c \in {1}}

\* The form of POST /save: a payload of 1 byte.
LivePayloads == {<<"Q", "Q", "=", "=">>}

\* The thread that calls try_consume_message on the store itself while
\* requests are served.
LiveConsumers == {"c1"}

InitLive ==
  /\ users \in {{r} : r \in LiveUserRows}
  /\ messages = {EarlierMessage}
  /\ hist = HistSave([t \in MsgTokens |-> NoHistory], EarlierMessage.message_token,
                     EarlierMessage.expire_timestamp, EarlierMessage.data)
  /\ clock = 0
  /\ conn = Unlocked
  /\ pc = [c \in Consumers |-> "idle"]
  /\ loc = [c \in Consumers |-> NoCall]
  /\ app = Unlocked
  /\ appPoisoned = FALSE
  /\ hpc = [h \in Servers |-> "idle"]
  /\ req = [h \in Servers |-> NoRequest]
  /\ resp = [h \in Servers |-> NoResponse]
  /\ lastOp = Op("connect", <<>>, "Ok", None)
  /\ global_vars = {VersionRow(LATEST_VERSION)}
  /\ mig = NoMigration
  /\ db = NoOwner
  /\ sweeper = "idle"

NextLive ==
  \/ \E h \in Servers, d \in LivePayloads : H_Request(h, "u1", d, None)
  \/ \E h \in Servers : H_Lock(h)
  \/ \E h \in Servers : L_Database(h)
  \/ \E h \in Servers : L_Call(h)
  \/ \E h \in Servers : L_Drop(h)
  \/ \E h \in Servers : L_Step(h)
  \/ \E c \in LiveConsumers : ConsumeCall(c, "tokA")
  \/ \E c \in LiveConsumers : ConsumeLock(c)
  \/ \E c \in LiveConsumers : ConsumeQuery(c)
  \/ \E c \in LiveConsumers : ConsumeDeleteRow(c)
  \/ \E c \in LiveConsumers : ConsumeReturn(c)
  \/ SweepCall
  \/ SweepDatabase
  \/ SweepRun(MaxTime)

\* Fair scheduling: a thread that can take a step takes it; a thread that
\* waits for a mutex gets it if the mutex is free again and again.  Requests
\* and calls arrive as they please.
HandlerNext(h) == H_Lock(h) \/ L_Database(h) \/ L_Call(h) \/ L_Drop(h) \/ L_Step(h)
ConsumerNext(c) == ConsumeLock(c) \/ ConsumeQuery(c) \/ ConsumeDeleteRow(c) \/ ConsumeReturn(c)
SweeperNext == SweepDatabase \/ SweepRun(MaxTime)

\* Where the threads are and who owns the mutexes: every step of a thread
\* changes it.
threads == <<hpc, pc, sweeper, app, db, conn>>

LiveFairness ==
  /\ \A h \in Servers : SF_threads(HandlerNext(h))
  /\ \A c \in LiveConsumers : SF_threads(ConsumerNext(c))
  /\ SF_threads(SweeperNext)

SpecLive == InitLive /\ [][NextLive]_vars /\ LiveFairness

\* ------------------------------------------ SpecUsers: quota provisioning
UsersSetLimits ==
  \E u \in UserTokens, l \in UserLimitInputs : set_user_limits(u, l[1], l[2], l[3])
UsersGetLimits == \E u \in UserTokens : get_user_limits(u)
UsersSetLast ==
  \E u \in UserTokens, t \in Timestamps : set_user_last_message_creation_time(u, t)
UsersGetLast == \E u \in UserTokens : get_user_last_message_creation_time(u)
UsersRemove == \E u \in UserTokens : remove_user_by_token(u)

NextUsers == UsersSetLimits \/ UsersGetLimits \/ UsersSetLast \/ UsersGetLast \/ UsersRemove

SpecUsers == Init /\ [][NextUsers]_vars

\* ------------------- SpecFrame: quota provisioning next to message traffic
FrameSave == \E t \in MsgTokens : save_message(t, 1, <<"a", "G", "k", "=">>)
FrameConsume == try_consume_message("tokA")
FrameSweep == clear_expired_messages(MaxTime)

NextFrame == NextUsers \/ FrameSave \/ FrameConsume \/ FrameSweep

SpecFrame == Init /\ [][NextFrame]_vars

\* ------------------------------------------------ connect, schema version
\* pub fn connect(path): Connection::open_in_memory() opens a new, empty
\* database whatever `path` is, and init creates the tables in it.
connect ==
  /\ users' = {}
  /\ messages' = {}
  /\ global_vars' = {}
  /\ conn' = Unlocked
  /\ mig' = NoMigration
  /\ lastOp' = Op("connect", <<>>, "Ok", None)
  /\ UNCHANGED handlerVars
  /\ UNCHANGED <<clock, pc, loc, hist>>

\* pub fn get_database_version(&self)
get_database_version ==
  /\ MutexFree(conn)
  /\ lastOp' = Op("get_database_version", <<>>, "Ok", Some(VersionOrLatest(global_vars)))
  /\ UNCHANGED handlerVars
  /\ UNCHANGED <<users, messages, clock, conn, pc, loc, hist, global_vars, mig>>

\* pub fn set_database_version(&self, version)
set_database_version(version) ==
  /\ MutexFree(conn)
  /\ global_vars' = ReplaceVersion(global_vars, version)
  /\ lastOp' = Op("set_database_version", <<version>>, "Ok", None)
  /\ UNCHANGED handlerVars
  /\ UNCHANGED <<users, messages, clock, conn, pc, loc, hist, mig>>

\* update_version: let current_version = db.get_database_version()?;
UpdateRead ==
  /\ mig.pc = "idle"
  /\ MutexFree(conn)
  /\ mig' = [pc |-> "migrate", current_version |-> VersionOrLatest(global_vars),
             before |-> SelectVersion(global_vars), previous |-> lastOp.op,
             applied |-> <<>>]
  /\ lastOp' = Op("get_database_version", <<>>, "Ok", Some(VersionOrLatest(global_vars)))
  /\ UNCHANGED handlerVars
  /\ UNCHANGED <<users, messages, clock, conn, pc, loc, hist, global_vars>>

\* if current_version != LATEST_VERSION {
\*   for updater in make_updaters(&current_version, LATEST_VERSION) { updater.update_db(db)?; } }
UpdateMigrate ==
  /\ mig.pc = "migrate"
  /\ IF mig.current_version # LATEST_VERSION
     THEN LET made == make_updaters(mig.current_version, LATEST_VERSION)
          IN IF made.panics
             THEN mig' = [mig EXCEPT !.pc = "aborted"]
             ELSE mig' = [mig EXCEPT !.pc = "write", !.applied = made.updaters]
     ELSE mig' = [mig EXCEPT !.pc = "write"]
  /\ lastOp' = Op("make_updaters", <<mig.current_version>>, "Ok", None)
  /\ UNCHANGED handlerVars
  /\ UNCHANGED <<users, messages, clock, conn, pc, loc, hist, global_vars>>

\* db.set_database_version(LATEST_VERSION)?; Ok(())
UpdateWrite ==
  /\ mig.pc = "write"
  /\ MutexFree(conn)
  /\ global_vars' = ReplaceVersion(global_vars, LATEST_VERSION)
  /\ mig' = [mig EXCEPT !.pc = "idle"]
  /\ lastOp' = Op("update_version", <<>>, "Ok", None)
  /\ UNCHANGED handlerVars
  /\ UNCHANGED <<users, messages, clock, conn, pc, loc, hist>>

\* ------------------------------- SpecBoot: one caller, connect and migrate
\* The calls of one thread follow each other: nothing else runs inside
\* update_version.  A restart of the process may come at any moment.
BootConnect == connect
BootGetVersion == mig.pc = "idle" /\ get_database_version
BootSetVersion == mig.pc = "idle" /\ \E v \in VersionSet : set_database_version(v)
BootUpdateRead == UpdateRead
BootUpdateMigrate == UpdateMigrate
BootUpdateWrite == UpdateWrite
BootSave ==
  /\ mig.pc = "idle"
  /\ \E t \in MsgTokens : save_message(t, MaxTime, <<"a", "G", "k", "=">>)
BootConsume == mig.pc = "idle" /\ \E t \in MsgTokens : try_consume_message(t)
BootUsers ==
  /\ mig.pc = "idle"
  /\ \/ set_user_limits("u1", 1, 2, 3)
     \/ set_user_last_message_creation_time("u1", MaxTime)

NextBoot ==
  \/ BootConnect \/ BootGetVersion \/ BootSetVersion
  \/ BootUpdateRead \/ BootUpdateMigrate \/ BootUpdateWrite
  \/ BootSave \/ BootConsume \/ BootUsers

SpecBoot == Init /\ [][NextBoot]_vars

\* ------------------------------------------------------------ claims, store
Found(h) == [data |-> Some(h.data), expire_timestamp |-> h.expire_timestamp]

\* C1 as stated: after a save, the first consume of the token returns exactly
\* (data, expire) and every later consume returns None, whatever sweeps ran in
\* between.
C1_FirstConsumeReturnsSaved ==
  \A t \in MsgTokens :
    hist[t].saved /\ hist[t].first # None =>
      /\ hist[t].first = Some(Found(hist[t]))
      /\ ~hist[t].later

\* C1 amended: after a save, the first consume of the token returns exactly
\* (data, expire) unless a sweep with a limit greater than expire ran between the
\* save and that consume, in which case it returns None; every later consume
\* returns None.
C1_FirstConsumeUnlessSwept ==
  \A t \in MsgTokens :
    hist[t].saved /\ hist[t].first # None =>
      /\ hist[t].first = IF hist[t].swept <= hist[t].expire_timestamp
                         THEN Some(Found(hist[t]))
                         ELSE Some(ConsumeNone)
      /\ ~hist[t].later

\* A message was saved, sweeps ran, its first consume returned it and a later
\* consume of the same token has just returned None.
C1_Witness ==
  \E t \in MsgTokens :
    /\ hist[t].saved /\ hist[t].swept >= 0
    /\ hist[t].first = Some(Found(hist[t]))
    /\ lastOp.op = "try_consume_message" /\ lastOp.args = <<t>>
    /\ lastOp.ret = Some(ConsumeNone)

\* C3: a message saved with expire_timestamp 0 is still returned by its first
\* consume, after any number of sweeps with any limits.
C3_ZeroExpireSurvivesSweep ==
  \A t \in MsgTokens :
    hist[t].saved /\ hist[t].expire_timestamp = 0 /\ hist[t].first # None =>
      hist[t].first = Some(Found(hist[t]))

SweepStep == lastOp'.op = "clear_expired_messages"

\* C4: a sweep with limit `now` deletes every message with a nonzero
\* expire_timestamp < now and no message with expire_timestamp >= now; a message
\* swept this way is None on its first consume, one expiring at or after every
\* limit swept is returned by it.
C4_SweepDeletesExactlyExpired ==
  /\ [][SweepStep =>
          \A r \in messages :
            /\ (r.expire_timestamp # 0 /\ r.expire_timestamp < lastOp'.args[1]
                  => SelectMessage(messages', r.message_token) = {})
            /\ (r.expire_timestamp >= lastOp'.args[1] => r \in messages')]_vars
  /\ [](\A t \in MsgTokens :
          hist[t].saved /\ hist[t].first # None /\ hist[t].swept >= 0 =>
            /\ (hist[t].expire_timestamp # 0 /\ hist[t].expire_timestamp < hist[t].swept
                  => hist[t].first = Some(ConsumeNone))
            /\ (hist[t].expire_timestamp >= hist[t].swept
                  => hist[t].first = Some(Found(hist[t]))))

\* Two messages, one expired and one expiring exactly at the limit, were swept:
\* the first is gone, the second is still stored.
C4_Witness ==
  /\ lastOp.op = "clear_expired_messages"
  /\ \E t, u \in MsgTokens :
       /\ hist[t].saved /\ hist[t].first = None
       /\ hist[t].expire_timestamp # 0 /\ hist[t].expire_timestamp < lastOp.args[1]
       /\ SelectMessage(messages, t) = {}
       /\ hist[u].saved /\ hist[u].first = None
       /\ hist[u].expire_timestamp = lastOp.args[1]
       /\ SelectMessage(messages, u) # {}

ConsumeStep(t) == lastOp'.op = "try_consume_message" /\ lastOp'.args = <<t>>

\* C5: a consume of a stored message whose expire_timestamp is earlier than the
\* clock returns the message in full and deletes it.
C5_ConsumeIgnoresExpiry ==
  [][\A t \in MsgTokens : \A r \in messages :
       ConsumeStep(t) /\ r.message_token = t /\ r.expire_timestamp < clock =>
         /\ lastOp'.ret = Some(ConsumeFound(r))
         /\ hist'[t].first = Some(Found(hist[t]))
         /\ \A q \in messages' : q.message_token # t]_vars

\* A message past its expire_timestamp has just been consumed in full.
C5_Witness ==
  \E t \in MsgTokens :
    /\ lastOp.op = "try_consume_message" /\ lastOp.args = <<t>>
    /\ hist[t].expire_timestamp > 0 /\ hist[t].expire_timestamp < clock
    /\ lastOp.ret = Some(Found(hist[t]))
    /\ hist[t].first = Some(Found(hist[t]))
    /\ SelectMessage(messages, t) = {}

\* ------------------------------------------------------------ claims, users
SameLimits(r, args) ==
  /\ r.retention_limit_minutes = args[2]
  /\ r.max_size_bytes = args[3]
  /\ r.message_creation_limit_minutes = args[4]

\* C6: set_user_limits on a token that has a row sets the three limits to the
\* new values and keeps the row's last_message_creation_timestamp; between two
\* states in which a user has a row, the timestamp differs only across a
\* set_user_last_message_creation_time of that user.
C6_SetLimitsKeepsLastCreation ==
  [][\A r \in users : \A q \in users' :
       r.token = q.token =>
         /\ (lastOp'.op = "set_user_limits" /\ lastOp'.args[1] = r.token =>
               /\ SameLimits(q, lastOp'.args)
               /\ q.last_message_creation_timestamp = r.last_message_creation_timestamp)
         /\ (q.last_message_creation_timestamp # r.last_message_creation_timestamp =>
               /\ lastOp'.op = "set_user_last_message_creation_time"
               /\ lastOp'.args[1] = r.token)]_vars

\* A user with a creation timestamp has just been given new limits.
C6_Witness ==
  /\ lastOp.op = "set_user_limits"
  /\ \E r \in users :
       /\ r.token = lastOp.args[1]
       /\ r.last_message_creation_timestamp # None
       /\ r.last_message_creation_timestamp # Some(0)
       /\ SameLimits(r, lastOp.args)
       /\ r.retention_limit_minutes = 4

\* ------------------------------------------------------ claims, consumers
\* C2: of the concurrent consumes of a stored token at most one returns the
\* payload, and exactly one does unless a sweep ran since the save; a consumer
\* between its SELECT and its return owns the connection mutex throughout.
C2_AtMostOneConsumerGetsPayload ==
  /\ \A t \in MsgTokens :
       hist[t].saved =>
         /\ ~(hist[t].first = Some(Found(hist[t])) /\ hist[t].later)
         /\ (hist[t].first # None /\ hist[t].swept = -1
               => hist[t].first = Some(Found(hist[t])) /\ ~hist[t].later)
  /\ \A c \in Consumers : pc[c] \in {"query", "delete", "return"} => conn = c

\* Two overlapping consumes of the same token, both called while it was stored
\* and with no sweep since, have returned: one got the payload, the other None.
C2_Witness ==
  \E t \in MsgTokens : \E c, d \in Consumers :
    /\ c # d /\ pc[c] = "idle" /\ pc[d] = "idle"
    /\ loc[c].token = t /\ loc[d].token = t
    /\ loc[c].raced \/ loc[d].raced
    /\ loc[c].stored /\ loc[d].stored
    /\ hist[t].saved /\ hist[t].swept = -1
    /\ loc[c].ret = Some(Found(hist[t]))
    /\ loc[d].ret = Some(ConsumeNone)

\* ------------------------------------------------------- claims, creation
\* The quota row of the user a request names.
RowOf(h) == CHOOSE r \in users : r.token = req[h].user_token

\* The handler leaves the step at label `at` in this step.
Leaves(h, at) == hpc[h] = at /\ hpc'[h] # at

\* The cooldown of the request's user is running at the clock's time.
CooldownRunning(h) ==
  LET r == RowOf(h)
  IN /\ r.message_creation_limit_minutes > 0
     /\ r.last_message_creation_timestamp # None
     /\ r.last_message_creation_timestamp # Some(0)
     /\ \A last \in r.last_message_creation_timestamp :
          clock - last < r.message_creation_limit_minutes * 60

\* C7: a request that reaches the cooldown check is answered RateLimited
\* exactly when the user's creation limit is > 0, a nonzero prior creation
\* timestamp exists and now - last < limit * 60; otherwise it goes on to the
\* size check.
C7_CooldownDeniesExactlyWhenRunning ==
  [][\A h \in Handlers :
       Leaves(h, "cooldown") =>
         /\ resp'[h].kind = "RateLimited" <=> CooldownRunning(h)
         /\ hpc'[h] = "size" <=> ~CooldownRunning(h)]_vars

\* C8: a request that reaches the size check is answered TooLarge exactly when
\* max_size_bytes > 0 and the decoded payload is longer than max_size_bytes; a
\* decoded payload of exactly max_size_bytes, and any payload under
\* max_size_bytes = 0, goes on to the retention check.
C8_SizeDeniesExactlyAboveLimit ==
  [][\A h \in Handlers :
       Leaves(h, "size") =>
         LET max == RowOf(h).max_size_bytes
             data == req[h].message_data
         IN /\ resp'[h].kind = "TooBig" <=>
                 (max > 0 /\ B64Valid(data) /\ B64DecodedLen(data) > max)
            /\ (B64Valid(data) /\ B64DecodedLen(data) <= max => hpc'[h] = "retention")
            /\ (max = 0 => hpc'[h] = "retention")]_vars

\* A payload one byte over the user's limit has been refused.
C8_Witness ==
  \E h \in Handlers :
    /\ hpc[h] = "respond" /\ resp[h].kind = "TooBig"
    /\ B64Valid(req[h].message_data)
    /\ B64DecodedLen(req[h].message_data) = RowOf(h).max_size_bytes + 1

\* C9: a request that reaches the retention check is answered RetentionTooLong
\* exactly when the requested retention is > 0, the user's retention limit is
\* > 0 and the request exceeds the limit; otherwise it goes on.
C9_RetentionDeniesExactlyAboveLimit ==
  [][\A h \in Handlers :
       Leaves(h, "retention") =>
         LET limit == RowOf(h).retention_limit_minutes
             asked == req[h].retention_limit_minutes
             over == asked > 0 /\ limit > 0 /\ asked > limit
         IN /\ resp'[h].kind = "RetentionTooBig" <=> over
            /\ hpc'[h] = "record" <=> ~over]_vars

\* A retention one minute over the user's limit has been refused.
C9_Witness ==
  \E h \in Handlers :
    /\ hpc[h] = "respond" /\ resp[h].kind = "RetentionTooBig"
    /\ RowOf(h).retention_limit_minutes > 0
    /\ req[h].retention_limit_minutes = RowOf(h).retention_limit_minutes + 1

\* C10: a request that stores its message adds exactly one row, with
\* expire_timestamp = now + retention * 60 for a retention > 0 and 0 for a
\* retention of 0, and with the form's message_data as data.
C10_StoredExpireAndPayload ==
  [][\A h \in Handlers :
       Leaves(h, "save") /\ resp'[h].kind = "Ok" =>
         \E row \in messages' :
           /\ messages' \ messages = {row}
           /\ messages \subseteq messages'
           /\ row.message_token = resp'[h].message_token
           /\ row.data = req[h].message_data
           /\ row.expire_timestamp =
                IF req[h].retention_limit_minutes > 0
                THEN clock + req[h].retention_limit_minutes * 60
                ELSE 0]_vars

\* A message with a retention > 0 has just been stored at a time > 0.
C10_Witness ==
  \E h \in Handlers : \E row \in messages :
    /\ hpc[h] = "respond" /\ resp[h].kind = "Ok"
    /\ lastOp.op = "save_message"
    /\ row.message_token = resp[h].message_token
    /\ req[h].retention_limit_minutes > 0 /\ clock > 0
    /\ row.expire_timestamp = clock + req[h].retention_limit_minutes * 60
    /\ row.data = req[h].message_data

\* ------------------------------------------------------- claims, migration
\* update_version passes its choice of migration steps in this step.
UpdateSelects == mig.pc = "migrate" /\ lastOp'.op = "make_updaters"

\* update_version returns in this step.
UpdateReturns == mig.pc = "write" /\ lastOp'.op = "update_version"

\* C11: update_version on a store at LATEST_VERSION, or with no version record,
\* applies no migration step, does not abort, and leaves exactly the record
\* LATEST_VERSION; every call leaves that record and the other tables as they
\* were, and a call that follows a call changes nothing at all.
C11_UpdateAtLatestIsNoOp ==
  /\ [][UpdateSelects /\ mig.before \in {None, Some(LATEST_VERSION)} =>
          mig'.pc = "write" /\ mig'.applied = <<>>]_vars
  /\ [][UpdateReturns =>
          /\ SelectVersion(global_vars') = {LATEST_VERSION}
          /\ global_vars' = {VersionRow(LATEST_VERSION)}
          /\ users' = users /\ messages' = messages
          /\ (mig.before = Some(LATEST_VERSION) \/ mig.previous = "update_version"
                => global_vars' = global_vars)]_vars

\* update_version has just returned twice in a row on a store that holds a
\* message and a quota row: the second call found the record of the first.
C11_Witness ==
  /\ lastOp.op = "update_version" /\ mig.previous = "update_version"
  /\ mig.before = Some(LATEST_VERSION) /\ mig.applied = <<>>
  /\ global_vars = {VersionRow(LATEST_VERSION)}
  /\ messages # {} /\ users # {}

\* The place of a version in the order of Versions.
VersionRank(v) == CHOOSE i \in 1..Len(Versions) : Versions[i] = v

\* C12: update_version never replaces the recorded version with an older one,
\* whatever record it starts from.
C12_VersionNeverRegresses ==
  [][UpdateReturns =>
       \A old \in SelectVersion(global_vars) : \A new \in SelectVersion(global_vars') :
         VersionRank(new) >= VersionRank(old)]_vars

\* The registered steps that lead from version_from to version_to, when there
\* are such: the steps after the one producing version_from (all steps from the
\* start for MINIMAL_VERSION) up to the one producing version_to.
ChainStart(version_from) ==
  {0 : x \in {y \in {version_from} : y = MINIMAL_VERSION}} \cup
    {i \in 1..Len(make_all_updaters) : make_all_updaters[i] = version_from}
ChainEnd(version_to) ==
  {j \in 1..Len(make_all_updaters) : make_all_updaters[j] = version_to}
HasChain(version_from, version_to) ==
  \E i \in ChainStart(version_from) : \E j \in ChainEnd(version_to) : i < j
Chain(version_from, version_to) ==
  LET i == CHOOSE a \in ChainStart(version_from) : \E j \in ChainEnd(version_to) : a < j
      j == CHOOSE b \in ChainEnd(version_to) : i < b
  IN SubSeq(make_all_updaters, i + 1, j)

\* C13: update_version writes LATEST_VERSION over a record that differs from it
\* only when the registered steps form a chain from that record to
\* LATEST_VERSION and every step of the chain was applied in registration
\* order; otherwise it aborts and writes nothing.
C13_BrokenChainAborts ==
  [][UpdateReturns /\ mig.current_version # LATEST_VERSION =>
       /\ HasChain(mig.current_version, LATEST_VERSION)
       /\ mig.applied = Chain(mig.current_version, LATEST_VERSION)]_vars

\* ------------------------------------------------ claims, store (continued)
\* C14: no two stored messages share a token; save_message with a token that
\* is stored returns an error and leaves every row of both tables, and so the
\* message a consume of that token returns, as they were: a consume that
\* returns a payload returns the one of the last save that succeeded.
C14_DuplicateSaveFails ==
  /\ [](\A r, q \in messages : r.message_token = q.message_token => r = q)
  /\ [][\A t \in MsgTokens :
          lastOp'.op = "save_message" /\ lastOp'.args = <<t>> /\ SelectMessage(messages, t) # {}
            => /\ lastOp'.status = "Err"
               /\ messages' = messages /\ users' = users /\ hist' = hist]_vars
  /\ [](\A t \in MsgTokens :
          lastOp.op = "try_consume_message" /\ lastOp.args = <<t>> /\ lastOp.status = "Ok" =>
            \A ret \in lastOp.ret : ret.data # None => hist[t].saved /\ ret = Found(hist[t]))

\* A save of a stored token has just been refused next to another message and
\* a quota row; the stored message is the one saved first.
C14_Witness ==
  /\ lastOp.op = "save_message" /\ lastOp.status = "Err"
  /\ \E r \in messages :
       /\ r.message_token = lastOp.args[1]
       /\ hist[r.message_token].saved
       /\ r.data = hist[r.message_token].data
       /\ r.expire_timestamp = hist[r.message_token].expire_timestamp
  /\ Cardinality(messages) = 2 /\ users # {}

\* ------------------------------------------------ claims, users (continued)
\* C15: after remove_user_by_token(t), get_user_limits(t) reports not found,
\* every row of another user and every message is as it was; save_message,
\* try_consume_message and clear_expired_messages leave the users table as it
\* was.
C15_RemoveUserTouchesOnlyItsRow ==
  /\ [][lastOp'.op = "remove_user_by_token" =>
          /\ UserLimitsResult(users', lastOp'.args[1]).ret = Some(Limits(FALSE, 0, 0, 0))
          /\ \A r \in users : r.token # lastOp'.args[1] => r \in users'
          /\ users' \subseteq users
          /\ messages' = messages]_vars
  /\ [][lastOp'.op \in {"save_message", "try_consume_message", "clear_expired_messages"}
          => users' = users]_vars

\* The row of a user has just been removed while another user, with a creation timestamp,
\* and two messages were stored: they are still there.
C15_Witness ==
  /\ lastOp.op = "remove_user_by_token" /\ lastOp.ret = Some(1)
  /\ SelectUser(users, lastOp.args[1]) = {}
  /\ \E r \in users : r.last_message_creation_timestamp # None
  /\ Cardinality(messages) = 2

\* ---------------------------------------------------- claims, durability
\* C16: connecting again to the same path leaves the stored messages, the
\* quota rows and the version record as they were, so that a message saved
\* before the reconnect is stored after it.
C16_ReconnectKeepsStore ==
  [][lastOp'.op = "connect" =>
       /\ messages' = messages
       /\ users' = users
       /\ global_vars' = global_vars]_vars

\* -------------------------------------------- claims, creation (continued)
\* The quota row of its user as a request found it.
RowFound(h) == CHOOSE r \in req[h].before.users : r.token = req[h].user_token

\* The denial conditions of a request, read from that row and the form: the
\* user has a row; the cooldown is running at time t; the decoded payload is
\* over the size limit; the retention asked is over the limit.
UserFound(h) == SelectUser(req[h].before.users, req[h].user_token) # {}
RateAt(h, t) ==
  LET r == RowFound(h)
  IN /\ r.message_creation_limit_minutes > 0
     /\ r.last_message_creation_timestamp # None
     /\ r.last_message_creation_timestamp # Some(0)
     /\ \A last \in r.last_message_creation_timestamp :
          t - last < r.message_creation_limit_minutes * 60
SizeOver(h) ==
  /\ RowFound(h).max_size_bytes > 0
  /\ B64Valid(req[h].message_data)
  /\ B64DecodedLen(req[h].message_data) > RowFound(h).max_size_bytes
RetentionOver(h) ==
  /\ req[h].retention_limit_minutes > 0
  /\ RowFound(h).retention_limit_minutes > 0
  /\ req[h].retention_limit_minutes > RowFound(h).retention_limit_minutes

\* The time at which the request's cooldown check read, or reads, the clock.
CooldownTime(h) == IF hpc[h] = "cooldown" THEN clock ELSE req[h].now

Denials == {"UserNotFound", "RateLimited", "TooBig", "RetentionTooBig"}

\* C17: the outcome of a request is the first of UserNotFound, RateLimited,
\* TooLarge, RetentionTooLong whose condition holds, whatever conditions after
\* it hold too, and the request is allowed only when none holds.
C17_FirstFailingCheckDecides ==
  [][\A h \in Handlers :
       resp'[h] # resp[h] =>
         LET k == resp'[h].kind
         IN /\ (k = "UserNotFound" <=> ~UserFound(h))
            /\ (k = "RateLimited" => RateAt(h, CooldownTime(h)))
            /\ (k = "TooBig" => ~RateAt(h, CooldownTime(h)) /\ SizeOver(h))
            /\ (k = "RetentionTooBig" =>
                  ~RateAt(h, CooldownTime(h)) /\ ~SizeOver(h) /\ RetentionOver(h))
            /\ (k = "Ok" =>
                  ~RateAt(h, CooldownTime(h)) /\ ~SizeOver(h) /\ ~RetentionOver(h))]_vars

\* A request over all three limits of its user has been answered RateLimited.
C17_Witness ==
  \E h \in Handlers :
    /\ hpc[h] = "respond" /\ UserFound(h)
    /\ SizeOver(h) /\ RetentionOver(h)
    /\ resp[h].kind = "RateLimited" /\ RateAt(h, clock)

\* C18: when a request is answered with a denial, the users table and the
\* messages table are what they were when the request arrived.
C18_DeniedRequestWritesNothing ==
  \A h \in Handlers :
    hpc[h] = "respond" /\ resp[h].kind \in Denials =>
      /\ users = req[h].before.users
      /\ messages = req[h].before.messages

\* A request of a user with a creation timestamp has been denied at the last
\* check, with a message in the store.
C18_Witness ==
  \E h \in Handlers :
    /\ hpc[h] = "respond" /\ resp[h].kind = "RetentionTooBig"
    /\ RowOf(h).last_message_creation_timestamp # None
    /\ RowOf(h).last_message_creation_timestamp # Some(clock)
    /\ messages # {}

\* C19: when a request is answered, its user's last_message_creation_timestamp
\* differs from what the request found only if the request stored a message.
C19_TimestampOnlyWithMessage ==
  \A h \in Handlers :
    hpc[h] = "respond" /\ users # req[h].before.users =>
      /\ resp[h].kind = "Ok"
      /\ \E row \in messages \ req[h].before.messages :
           row.message_token = resp[h].message_token

\* ---------------------------------------------- claims, concurrent creation
\* The steps of create_new_message from the quota lookup to the response.
InHandler == {"limits", "cooldown", "size", "retention", "record", "save", "respond"}
\* The steps between a passed cooldown check and the write of the timestamp.
PassedCheck == {"size", "retention", "record"}

\* C20 as stated: the cooldown check and the write of the timestamp are not
\* enclosed in a critical section: a handler between the two owns no mutex
\* that keeps another handler from its own check.
C20_CheckAndWriteNotEnclosed ==
  \A h \in Racers : hpc[h] \in PassedCheck => app # h

\* C20 amended: a handler owns the application-state mutex from its quota
\* lookup to its response, so no two handlers are between lookup and response
\* at one time, no two have passed the cooldown check with neither timestamp
\* written, and a handler that passed the check passed it against the
\* timestamp now stored, the one of an earlier request included.
C20_CreationsSerialised ==
  /\ \A h \in Racers : hpc[h] \in InHandler => app = h
  /\ \A h, g \in Racers : h # g => ~(hpc[h] \in InHandler /\ hpc[g] \in InHandler)
  /\ \A h, g \in Racers : h # g => ~(hpc[h] \in PassedCheck /\ hpc[g] \in PassedCheck)
  /\ \A h \in Racers :
       hpc[h] \in PassedCheck /\ req[h].message_creation_limit_minutes > 0 =>
         \A last \in RowOf(h).last_message_creation_timestamp :
           last > 0 => req[h].now - last >= req[h].message_creation_limit_minutes * 60

\* Two requests of a user with a cooldown arrived before either stored a
\* message: one has created its message, the other is answered RateLimited.
C20_Witness ==
  \E h, g \in Racers :
    /\ h # g
    /\ resp[h].kind = "Ok" /\ SelectMessage(messages, resp[h].message_token) # {}
    /\ hpc[g] = "respond" /\ resp[g].kind = "RateLimited"
    /\ req[g].before.messages = {}
    /\ req[g].before.users # users
    /\ RowOf(g).message_creation_limit_minutes > 0

\* ------------------------------------------------- claims, minutes remaining
\* now - last_creation_timestamp of the request's user, at the clock's time.
Elapsed(h) == clock - LastCreationResult(users, req[h].user_token)

\* C21: a request whose cooldown is running is answered RateLimited, and the
\* minutes_left it reports is message_creation_limit_minutes minus the whole
\* minutes of elapsed (elapsed / 60 as the integer division computes it), a
\* value from 1 to the limit, also when the stored timestamp is later than the
\* clock; the subtraction never leaves the range of u32 (no panic, no wrapped
\* value).
C21_MinutesLeftInRange ==
  [][\A h \in Handlers :
       Leaves(h, "cooldown") /\ CooldownRunning(h) =>
         /\ resp'[h].kind = "RateLimited"
         /\ resp'[h].minutes_left =
              RowOf(h).message_creation_limit_minutes - TruncDiv(Elapsed(h), SecondsPerMinute)
         /\ resp'[h].minutes_left \in 1..RowOf(h).message_creation_limit_minutes]_vars

\* ------------------------------------------ claims, the application state
\* C22: whatever became of the creation requests before it (denied, storage
\* error, payload that is no base64), a request that comes to take the
\* application-state mutex finds it usable: a creation request goes on to its
\* quota lookup, the home page and the shared page are served.
C22_LaterRequestsServed ==
  [][\A h \in Servers :
       /\ Leaves(h, "lock") => hpc'[h] = "limits"
       /\ Leaves(h, "home") => resp'[h].kind = "Home"
       /\ Leaves(h, "shared") => resp'[h].kind = "Shared"]_vars

\* --------------------------------------------------- claims, termination
\* A thread is inside a request or a call, or waits for a mutex.
Busy ==
  \/ \E h \in Servers : hpc[h] # "idle" \/ db.owner = h
  \/ \E c \in LiveConsumers : pc[c] # "idle"
  \/ sweeper # "idle"

\* The mutexes are taken in one order: a handler owns the database handle
\* only while it owns the application state, the owner of the connection
\* waits for no other mutex, and while any thread is busy some thread can
\* take a step.
NoDeadlock ==
  /\ \A h \in Servers : db.owner = h => app = h
  /\ conn # Unlocked => conn \in LiveConsumers /\ pc[conn] \in {"query", "delete", "return"}
  /\ Busy => ENABLED NextLive

====
